---- MODULE Spec2Model ----
(***************************************************************************)
(* Model of HW8.py: the address book (Field validators, Record,            *)
(* AddressBook with the upcoming-birthdays query), the command handlers    *)
(* wrapped by input_error, and the command loop of main().                 *)
(*                                                                         *)
(* A Python str is a sequence of one-character strings.  A character that  *)
(* is not ASCII is written by its code point ("U+00B2" is SUPERSCRIPT TWO).*)
(* An exception is the name of its class ("ValueError", "KeyError",        *)
(* "IndexError"); "None" means that the call returned normally.            *)
(***************************************************************************)
EXTENDS Integers, Sequences, FiniteSets, TLC

VARIABLES
  data,   \* AddressBook.data: the dict, as its entries in insertion order
  last,   \* the last call made on the book or a record, and its outcome
  pc,     \* where the process is: "lib", "prompt", "exited", "crashed"
  file    \* addressbook.pkl: <<>> while missing, else <<the pickled data>>

vars == <<data, last, pc, file>>

----------------------------------------------------------------------------
(* Bounds of the model *)

MaxPhones == 1     \* add_phone is not offered on a record with this many phones

----------------------------------------------------------------------------
(* str *)

AsciiDigits == {"0", "1", "2", "3", "4", "5", "6", "7", "8", "9"}

\* Characters c with c.isdigit() that are not ASCII: SUPERSCRIPT TWO.
OtherDigits == {"U+00B2"}

Whitespace == {" ", "\t"}

DigitChars == <<"0", "1", "2", "3", "4", "5", "6", "7", "8", "9">>

DigitValue(c) == (CHOOSE i \in 1..10 : DigitChars[i] = c) - 1

\* str.isdigit(): every character is a digit and there is at least one.
isdigit(s) == Len(s) > 0 /\ \A i \in 1..Len(s) : s[i] \in AsciiDigits \cup OtherDigits

\* c.lower() on the letters the model's lines use.
LowerChar(c) ==
  CASE c = "A" -> "a"
    [] c = "D" -> "d"
    [] c = "E" -> "e"
    [] c = "X" -> "x"
    [] OTHER -> c

lower(s) == [i \in 1..Len(s) |-> LowerChar(s[i])]

Rep(c, n) == [i \in 1..n |-> c]

RECURSIVE SplitOn(_, _, _, _)
\* Pieces of s cut at the characters of seps; cur is the piece being read.
\* keepEmpty: str.split(sep) keeps empty pieces, str.split() drops them.
SplitOn(s, seps, cur, keepEmpty) ==
  IF s = <<>>
  THEN IF keepEmpty \/ cur # <<>> THEN <<cur>> ELSE <<>>
  ELSE IF Head(s) \in seps
       THEN (IF keepEmpty \/ cur # <<>> THEN <<cur>> ELSE <<>>)
            \o SplitOn(Tail(s), seps, <<>>, keepEmpty)
       ELSE SplitOn(Tail(s), seps, Append(cur, Head(s)), keepEmpty)

\* user_input.split()
split(s) == SplitOn(s, Whitespace, <<>>, FALSE)

\* value.split('.')
splitDot(s) == SplitOn(s, {"."}, <<>>, TRUE)

RECURSIVE DigitsValue(_, _)
DigitsValue(s, acc) ==
  IF s = <<>> THEN acc ELSE DigitsValue(Tail(s), acc * 10 + DigitValue(Head(s)))

\* int(s) for s over the model's characters: an optional sign, then ASCII digits.
IntOk(s) ==
  LET body == IF s # <<>> /\ Head(s) \in {"-", "+"} THEN Tail(s) ELSE s
  IN  body # <<>> /\ \A i \in 1..Len(body) : body[i] \in AsciiDigits

IntValue(s) ==
  IF Head(s) = "-" THEN 0 - DigitsValue(Tail(s), 0)
  ELSE IF Head(s) = "+" THEN DigitsValue(Tail(s), 0)
  ELSE DigitsValue(s, 0)

\* '%02d' / '%04d'
Pad(n, width) ==
  [i \in 1..width |->
     DigitChars[((n \div (10 ^ (width - i))) % 10) + 1]]

----------------------------------------------------------------------------
(* datetime: a datetime is [y, m, d, s], s the seconds since midnight *)

IsLeap(y) == y % 4 = 0 /\ (y % 100 # 0 \/ y % 400 = 0)

DaysInMonth(y, m) ==
  IF m = 2 THEN (IF IsLeap(y) THEN 29 ELSE 28)
  ELSE IF m \in {4, 6, 9, 11} THEN 30 ELSE 31

DaysBeforeYear(y) ==
  (y - 1) * 365 + ((y - 1) \div 4) - ((y - 1) \div 100) + ((y - 1) \div 400)

RECURSIVE DaysBeforeMonth(_, _)
DaysBeforeMonth(y, m) ==
  IF m = 1 THEN 0 ELSE DaysBeforeMonth(y, m - 1) + DaysInMonth(y, m - 1)

\* datetime(year, month, day) raises ValueError outside these ranges.
ValidDate(y, m, d) ==
  /\ y \in 1..9999
  /\ m \in 1..12
  /\ d >= 1 /\ d <= DaysInMonth(y, m)

toordinal(dt) == DaysBeforeYear(dt.y) + DaysBeforeMonth(dt.y, dt.m) + dt.d

RECURSIVE YearOf(_, _)
\* The year that holds day n, searched upwards from y
YearOf(n, y) == IF n <= DaysBeforeYear(y + 1) THEN y ELSE YearOf(n, y + 1)

RECURSIVE MonthDay(_, _, _, _)
\* The month and day of the doy-th day of year y, searched upwards from month m
MonthDay(y, doy, m, s) ==
  IF doy <= DaysInMonth(y, m)
  THEN [y |-> y, m |-> m, d |-> doy, s |-> s]
  ELSE MonthDay(y, doy - DaysInMonth(y, m), m + 1, s)

InYearOf(n, y, s) == MonthDay(y, n - DaysBeforeYear(y), 1, s)

\* date.fromordinal(n) with the time of day s
fromordinal(n, s) == InYearOf(n, YearOf(n, (n \div 366) + 1), s)

\* Monday is 0, Sunday is 6.
weekday(dt) == (toordinal(dt) + 6) % 7

\* dt + timedelta(days)
AddDays(dt, days) == fromordinal(toordinal(dt) + days, dt.s)

\* a < b
Before(a, b) ==
  \/ toordinal(a) < toordinal(b)
  \/ toordinal(a) = toordinal(b) /\ a.s < b.s

\* (a - b).days: timedelta normalises 0 <= seconds < 86400, days takes the floor.
DaysBetween(a, b) ==
  LET dd == toordinal(a) - toordinal(b)
      ss == a.s - b.s
  IN  IF ss < 0 THEN dd - 1 ELSE dd

\* dt.strftime('%d.%m.%Y')
strftime(dt) == Pad(dt.d, 2) \o <<".">> \o Pad(dt.m, 2) \o <<".">> \o Pad(dt.y, 4)

----------------------------------------------------------------------------
(* Field validators.  A constructor returns [exc, value]. *)

PhoneLen == 10

NoDate == [y |-> 0, m |-> 0, d |-> 0, s |-> 0]

\* Name without its check of the value
Name_unchecked(value) == [exc |-> "None", value |-> value]

\* Name(value)
Name(value) ==
  IF value # <<>>
  THEN [exc |-> "None", value |-> value]
  ELSE [exc |-> "ValueError", value |-> <<>>]

\* Phone(value)
Phone(value) ==
  IF Len(value) = PhoneLen /\ isdigit(value)
  THEN [exc |-> "None", value |-> value]
  ELSE [exc |-> "ValueError", value |-> <<>>]

\* Field.__str__ of a Phone: str(self.value)
PhoneStr(phone) == phone

\* Birthday(value): day, month, year = map(int, value.split('.')), then
\* datetime(year, month, day); every ValueError is raised again as ValueError.
Birthday(value) ==
  LET parts == splitDot(value)
  IN  IF /\ Len(parts) = 3
         /\ \A i \in 1..3 : IntOk(parts[i])
         /\ ValidDate(IntValue(parts[3]), IntValue(parts[2]), IntValue(parts[1]))
      THEN [exc |-> "None",
            value |-> [y |-> IntValue(parts[3]), m |-> IntValue(parts[2]),
                       d |-> IntValue(parts[1]), s |-> 0]]
      ELSE [exc |-> "ValueError", value |-> NoDate]

----------------------------------------------------------------------------
(* Record: [name, phones, birthday]; birthday = NoDate is None.            *)
(* A method returns [exc, rec], rec the record after the call.             *)

\* Record(name_value)
Record(name_value) ==
  LET n == Name(name_value)
  IN  [exc |-> n.exc,
       rec |-> [name |-> n.value, phones |-> <<>>, birthday |-> NoDate]]

\* Record.add_phone: the Phone is built before the append
add_phone(rec, phone_number) ==
  LET p == Phone(phone_number)
  IN  IF p.exc # "None"
      THEN [exc |-> p.exc, rec |-> rec]
      ELSE [exc |-> "None", rec |-> [rec EXCEPT !.phones = Append(@, p.value)]]

RECURSIVE Without(_, _)
Without(phones, phone_number) ==
  IF phones = <<>> THEN <<>>
  ELSE IF PhoneStr(Head(phones)) # phone_number
       THEN <<Head(phones)>> \o Without(Tail(phones), phone_number)
       ELSE Without(Tail(phones), phone_number)

\* Record.remove_phone
remove_phone(rec, phone_number) ==
  [exc |-> "None", rec |-> [rec EXCEPT !.phones = Without(@, phone_number)]]

\* The first i with str(phones[i]) = phone_number, 0 when there is none.
FirstIndex(phones, phone_number) ==
  IF \E i \in 1..Len(phones) : PhoneStr(phones[i]) = phone_number
  THEN CHOOSE i \in 1..Len(phones) :
         /\ PhoneStr(phones[i]) = phone_number
         /\ \A j \in 1..(i - 1) : PhoneStr(phones[j]) # phone_number
  ELSE 0

\* Record.edit_phone
edit_phone(rec, old_phone_number, new_phone_number) ==
  LET i == FirstIndex(rec.phones, old_phone_number)
      p == Phone(new_phone_number)
  IN  IF i = 0 THEN [exc |-> "ValueError", rec |-> rec]
      ELSE IF p.exc # "None" THEN [exc |-> p.exc, rec |-> rec]
      ELSE [exc |-> "None", rec |-> [rec EXCEPT !.phones[i] = p.value]]

\* Record.find_phone: [found, value]; found = FALSE is None
find_phone(rec, phone_number) ==
  LET i == FirstIndex(rec.phones, phone_number)
  IN  IF i = 0 THEN [found |-> FALSE, value |-> <<>>]
      ELSE [found |-> TRUE, value |-> rec.phones[i]]

\* Record.add_birthday: the Birthday is built before the assignment
add_birthday(rec, birthday) ==
  LET b == Birthday(birthday)
  IN  IF b.exc # "None"
      THEN [exc |-> b.exc, rec |-> rec]
      ELSE [exc |-> "None", rec |-> [rec EXCEPT !.birthday = b.value]]

RECURSIVE JoinStr(_, _)
\* sep.join(strs)
JoinStr(strs, sep) ==
  IF strs = <<>> THEN <<>>
  ELSE IF Len(strs) = 1 THEN Head(strs)
  ELSE Head(strs) \o sep \o JoinStr(Tail(strs), sep)

\* Record.__str__
RecordStr(rec) ==
  LET phones_str == JoinStr([i \in 1..Len(rec.phones) |-> PhoneStr(rec.phones[i])],
                            <<";", " ">>)
      head == <<"C","o","n","t","a","c","t"," ","n","a","m","e",":"," ">>
              \o rec.name
              \o <<","," ","p","h","o","n","e","s",":"," ">>
              \o phones_str
  IN  IF rec.birthday # NoDate
      THEN head \o <<","," ","b","i","r","t","h","d","a","y",":"," ">>
                \o strftime(rec.birthday)
      ELSE head

----------------------------------------------------------------------------
(* AddressBook: data is a sequence of [key, rec], the dict in insertion    *)
(* order.                                                                  *)

Keys(d) == {d[i].key : i \in 1..Len(d)}

IndexOf(d, key) ==
  IF key \in Keys(d) THEN CHOOSE i \in 1..Len(d) : d[i].key = key ELSE 0

\* d[key] = rec: an existing key keeps its place, a new one goes last
SetItem(d, key, rec) ==
  IF key \in Keys(d)
  THEN [d EXCEPT ![IndexOf(d, key)] = [key |-> key, rec |-> rec]]
  ELSE Append(d, [key |-> key, rec |-> rec])

\* AddressBook.add_record
add_record(d, rec) == SetItem(d, rec.name, rec)

\* AddressBook.find: [found, rec]; found = FALSE is None
find(d, name) ==
  IF name \in Keys(d)
  THEN [found |-> TRUE, rec |-> d[IndexOf(d, name)].rec]
  ELSE [found |-> FALSE, rec |-> [name |-> <<>>, phones |-> <<>>, birthday |-> NoDate]]

\* delete that passes over a missing name, as self.data.pop(name, None) would
delete_quiet(d, name) ==
  [exc |-> "None", data |-> SelectSeq(d, LAMBDA e : e.key # name)]

\* AddressBook.delete: [exc, data]
delete(d, name) ==
  IF name \in Keys(d)
  THEN [exc |-> "None",
        data |-> SubSeq(d, 1, IndexOf(d, name) - 1)
                 \o SubSeq(d, IndexOf(d, name) + 1, Len(d))]
  ELSE [exc |-> "KeyError", data |-> d]

Window == 5

RECURSIVE NextWeekday(_)
\* while next_birthday.weekday() >= 5: next_birthday += timedelta(days=1)
NextWeekday(dt) == IF weekday(dt) >= 5 THEN NextWeekday(AddDays(dt, 1)) ELSE dt

\* date + timedelta((0 - date.weekday()) % 7), formatted
ReportedDate(date) == strftime(AddDays(date, (0 - weekday(date)) % 7))

\* birthday.replace(year=y)
ReplaceYear(birthday, y) == [birthday EXCEPT !.y = y]

\* replace raises ValueError when the day is not in that year's month
ReplaceOk(birthday, y) == ValidDate(y, birthday.m, birthday.d)

\* days_until_birthday <= 5 decides whether (name, next_birthday) is appended
Within(next_birthday, today) ==
  [exc |-> "None",
   keep |-> DaysBetween(next_birthday, today) <= Window,
   date |-> next_birthday]

NoBirthday == [exc |-> "ValueError", keep |-> FALSE, date |-> NoDate]

\* One pass of the loop body for a record with a birthday:
\* [exc, keep, date], date the next_birthday after the weekend walk.
NextBirthday(birthday, today) ==
  IF ~ReplaceOk(birthday, today.y) THEN NoBirthday
  ELSE IF Before(ReplaceYear(birthday, today.y), today)
       THEN IF ~ReplaceOk(birthday, today.y + 1) THEN NoBirthday
            ELSE Within(NextWeekday(ReplaceYear(birthday, today.y + 1)), today)
       ELSE Within(NextWeekday(ReplaceYear(birthday, today.y)), today)

\* The list after one more record: nb its NextBirthday, rest the later records'
Collected(name, nb, rest) ==
  IF nb.exc # "None" THEN [exc |-> nb.exc, items |-> <<>>]
  ELSE IF rest.exc # "None" THEN rest
  ELSE [exc |-> "None",
        items |-> (IF nb.keep THEN <<[name |-> name, date |-> nb.date]>> ELSE <<>>)
                  \o rest.items]

RECURSIVE Upcoming(_, _)
\* The loop over self.data.values(): [exc, items], items the (name, date) pairs
Upcoming(d, today) ==
  IF d = <<>> THEN [exc |-> "None", items |-> <<>>]
  ELSE IF Head(d).rec.birthday = NoDate THEN Upcoming(Tail(d), today)
  ELSE Collected(Head(d).rec.name, NextBirthday(Head(d).rec.birthday, today),
                 Upcoming(Tail(d), today))

\* The returned list comprehension
Reported(up) ==
  [exc |-> up.exc,
   ret |-> [i \in 1..Len(up.items) |->
              [name |-> up.items[i].name, date |-> ReportedDate(up.items[i].date)]]]

\* AddressBook.get_upcoming_birthdays with datetime.today() = today: [exc, ret]
get_upcoming_birthdays(d, today) == Reported(Upcoming(d, today))

----------------------------------------------------------------------------
(* Command handlers.  A handler returns [data, exc, msg, lines]: the book  *)
(* after the call, the exception input_error caught ("None" if none), and  *)
(* the returned text, a fixed message (msg) or computed lines (lines).     *)

\* input_error: the message for the exception caught
input_error(exc) ==
  CASE exc = "KeyError"   -> "Enter user name."
    [] exc = "ValueError" -> "Give me name and phone please."
    [] exc = "IndexError" -> "Provide both name and phone."
    [] OTHER              -> exc

Raised(d, exc) == [data |-> d, exc |-> exc, msg |-> input_error(exc), lines |-> <<>>]

Returned(d, msg, lines) == [data |-> d, exc |-> "None", msg |-> msg, lines |-> lines]

\* add_contact(args, book)
add_contact(args, d) ==
  IF Len(args) < 2 THEN Raised(d, "ValueError")
  ELSE LET name    == args[1]
           phone   == args[2]
           isNew   == ~find(d, name).found
           created == Record(name)
           d1      == IF isNew THEN add_record(d, created.rec) ELSE d
           message == IF isNew THEN "Contact added." ELSE "Contact updated."
           added   == add_phone(find(d1, name).rec, phone)
       IN  IF isNew /\ created.exc # "None" THEN Raised(d, created.exc)
           ELSE IF phone = <<>> THEN Returned(d1, message, <<>>)
           ELSE IF added.exc # "None" THEN Raised(d1, added.exc)
           ELSE Returned(SetItem(d1, name, added.rec), message, <<>>)

\* change_contact(args, book)
change_contact(args, d) ==
  IF Len(args) # 3 THEN Raised(d, "ValueError")
  ELSE LET name      == args[1]
           old_phone == args[2]
           new_phone == args[3]
           contact   == find(d, name).rec
           edited    == edit_phone(contact, old_phone, new_phone)
       IN  IF name \notin Keys(d) THEN Returned(d, "Contact not found.", <<>>)
           ELSE IF ~find_phone(contact, old_phone).found
                THEN Returned(d, "Old phone number not found for this contact.", <<>>)
           ELSE IF edited.exc # "None" THEN Raised(d, edited.exc)
           ELSE Returned(SetItem(d, name, edited.rec),
                         "Phone number updated for existing contact.", <<>>)

\* show_phone(args, book)
show_phone(args, d) ==
  IF Len(args) = 0 THEN Raised(d, "IndexError")
  ELSE IF args[1] \in Keys(d)
       THEN LET phones == find(d, args[1]).rec.phones
            IN  Returned(d, "", [i \in 1..Len(phones) |-> PhoneStr(phones[i])])
       ELSE Returned(d, "Contact not found.", <<>>)

\* show_all(args, book)
show_all(args, d) ==
  IF d = <<>> THEN Returned(d, "No contacts found.", <<>>)
  ELSE Returned(d, "", [i \in 1..Len(d) |-> RecordStr(d[i].rec)])

\* add_birthday(args, book), the handler
add_birthday_cmd(args, d) ==
  IF Len(args) # 2 THEN Raised(d, "ValueError")
  ELSE LET name == args[1]
           set  == add_birthday(find(d, name).rec, args[2])
       IN  IF name \notin Keys(d) THEN Returned(d, "Contact not found.", <<>>)
           ELSE IF set.exc # "None" THEN Raised(d, set.exc)
           ELSE Returned(SetItem(d, name, set.rec),
                         "Birthday added to existing contact.", <<>>)

\* show_birthday(args, book)
show_birthday(args, d) ==
  IF Len(args) = 0 THEN Raised(d, "IndexError")
  ELSE IF args[1] \in Keys(d)
       THEN IF find(d, args[1]).rec.birthday # NoDate
            THEN Returned(d, "", <<strftime(find(d, args[1]).rec.birthday)>>)
            ELSE Returned(d, "No birthday information for this contact.", <<>>)
       ELSE Returned(d, "Contact not found.", <<>>)

\* birthdays(args, book) with datetime.today() = today
birthdays(args, d, today) ==
  LET up == get_upcoming_birthdays(d, today)
  IN  IF up.exc # "None" THEN Raised(d, up.exc)
      ELSE IF up.ret = <<>>
           THEN Returned(d, "No upcoming birthdays in the next week.", <<>>)
           ELSE Returned(d, "", [i \in 1..Len(up.ret) |->
                                   up.ret[i].name \o <<":", " ">> \o up.ret[i].date])

RECURSIVE lstrip(_)
lstrip(s) == IF s # <<>> /\ Head(s) \in Whitespace THEN lstrip(Tail(s)) ELSE s

RECURSIVE rstrip(_)
rstrip(s) ==
  IF s # <<>> /\ s[Len(s)] \in Whitespace THEN rstrip(SubSeq(s, 1, Len(s) - 1)) ELSE s

\* str.strip()
strip(s) == rstrip(lstrip(s))

\* parse_input(user_input): [exc, cmd, args]; unpacking an empty split raises
parse_input(user_input) ==
  LET words == split(user_input)
  IN  IF words = <<>>
      THEN [exc |-> "ValueError", cmd |-> <<>>, args |-> <<>>]
      ELSE [exc |-> "None", cmd |-> lower(strip(Head(words))), args |-> Tail(words)]

----------------------------------------------------------------------------
(* Inputs of the model *)

Names == {<<"a">>, <<"b">>}

NameInputs == Names \cup {<<>>}

P1 == DigitChars                      \* "0123456789"
P2 == Rep("5", PhoneLen)              \* "5555555555"
PShort == Rep("5", PhoneLen - 1)      \* nine digits

ValidPhones == {P1, P2}

PhoneInputs == ValidPhones \cup {PShort}

DateStr(d, m, y) == Pad(d, 2) \o <<".">> \o Pad(m, 2) \o <<".">> \o Pad(y, 4)

B1 == DateStr(13, 6, 1990)            \* a Thursday in 2024
B2 == DateStr(15, 6, 1990)            \* a Saturday in 2024
B3 == DateStr(29, 2, 2020)            \* 29 February of a leap year
BBad == DateStr(29, 2, 2023)          \* not a date

BShort == <<"1", "3", ".", "0", "6">>  \* two fields

\* Birthdays given to the record and handler calls of Spec and SpecMain
BirthdayInputs == {B1, BBad, BShort}

\* Birthdays given to the records whose upcoming birthdays are asked for
QueryBirthdays == {B1, B2, B3, BBad}

\* Values of datetime.today() at the prompt
TodaysMain ==
  { [y |-> 2024, m |-> 6, d |-> 10, s |-> ss] : ss \in {0, 43200} }

\* Values of datetime.today(): every day of two weeks of June 2024, days around
\* 29 February in a leap year and in a common year, at midnight and at noon.
Todays ==
  { [y |-> 2024, m |-> 6, d |-> dd, s |-> ss] : dd \in 3..16, ss \in {0, 43200} }
  \cup
  { [y |-> yy, m |-> 2, d |-> dd, s |-> ss] : yy \in {2023, 2024}, dd \in {26, 27},
                                               ss \in {0, 43200} }

W_add           == <<"a", "d", "d">>
W_change        == <<"c", "h", "a", "n", "g", "e">>
W_phone         == <<"p", "h", "o", "n", "e">>
W_all           == <<"a", "l", "l">>
W_add_birthday  == <<"a", "d", "d", "-", "b", "i", "r", "t", "h", "d", "a", "y">>
W_show_birthday == <<"s", "h", "o", "w", "-", "b", "i", "r", "t", "h", "d", "a", "y">>
W_birthdays     == <<"b", "i", "r", "t", "h", "d", "a", "y", "s">>
W_hello         == <<"h", "e", "l", "l", "o">>
W_close         == <<"c", "l", "o", "s", "e">>
W_exit          == <<"e", "x", "i", "t">>

\* Argument lists a handler is called with: the right count, too few, too many.
AddArgs ==
  { <<n, p>> : n \in Names, p \in PhoneInputs }
  \cup { <<>>, << <<"a">> >>, << <<"a">>, P1, P2 >> }

ChangeArgs ==
  { <<n, o, p>> : n \in Names, o \in ValidPhones, p \in PhoneInputs }
  \cup { << <<"a">>, P1 >>, << <<"a">>, P1, P2, P2 >> }

NameArgs == { <<n>> : n \in Names } \cup { <<>> }

AddBirthdayArgs ==
  { <<n, b>> : n \in Names, b \in BirthdayInputs }
  \cup { << <<"a">> >>, << <<"a">>, B1, B2 >> }

\* Lines typed at the prompt: every command with its argument lists, an
\* upper-case and a padded spelling, an unknown command, and blank lines.
Line(cmd, args) == JoinStr(<<cmd>> \o args, <<" ">>)

Lines ==
  { Line(W_add, a) : a \in AddArgs }
  \cup { Line(W_change, a) : a \in ChangeArgs }
  \cup { Line(W_phone, a) : a \in NameArgs }
  \cup { Line(W_add_birthday, a) : a \in AddBirthdayArgs }
  \cup { Line(W_show_birthday, a) : a \in NameArgs }
  \cup { Line(W_all, <<>>), Line(W_birthdays, <<>>), Line(W_hello, <<>>),
         Line(W_close, <<>>), Line(W_exit, <<>>),
         Line(<<"A", "D", "D">>, << <<"a">>, P1 >>),
         <<" ", "\t">> \o Line(W_hello, << <<"a">> >>) \o <<" ">>,
         Line(<<"x">>, <<>>),
         <<>>, <<" ">> }

----------------------------------------------------------------------------
(* The state machine *)

Call(op, args, exc, found, today, ret, msg, lines) ==
  [op |-> op, args |-> args, exc |-> exc, found |-> found, today |-> today,
   ret |-> ret, msg |-> msg, lines |-> lines]

\* A call that returns nothing or raises
Plain(op, args, exc) == Call(op, args, exc, FALSE, NoDate, <<>>, "", <<>>)

RecOf(key) == find(data, key).rec

\* The book as a library: AddressBook() and no call made yet
Init ==
  /\ data = <<>>
  /\ last = Plain("", <<>>, "None")
  /\ pc = "lib"
  /\ file = <<>>

\* record = Record(n); book.add_record(record)
AddRecord ==
  /\ pc = "lib"
  /\ \E n \in NameInputs :
       LET r == Record(n)
       IN  IF r.exc # "None"
           THEN /\ last' = Plain("Record", <<n>>, r.exc)
                /\ UNCHANGED data
           ELSE /\ data' = add_record(data, r.rec)
                /\ last' = Plain("add_record", <<n>>, "None")
  /\ UNCHANGED <<pc, file>>

\* book.find(n)
Find ==
  /\ pc = "lib"
  /\ \E n \in NameInputs :
       last' = Call("find", <<n>>, "None", find(data, n).found, NoDate, <<>>, "", <<>>)
  /\ UNCHANGED <<data, pc, file>>

\* book.delete(n)
Delete ==
  /\ pc = "lib"
  /\ \E n \in NameInputs :
       LET r == delete(data, n)
       IN  /\ data' = r.data
           /\ last' = Plain("delete", <<n>>, r.exc)
  /\ UNCHANGED <<pc, file>>

\* book[k].add_phone(p)
AddPhone ==
  /\ pc = "lib"
  /\ \E k \in Keys(data), p \in PhoneInputs :
       /\ Len(RecOf(k).phones) < MaxPhones
       /\ LET r == add_phone(RecOf(k), p)
          IN  /\ data' = SetItem(data, k, r.rec)
              /\ last' = Plain("add_phone", <<k, p>>, r.exc)
  /\ UNCHANGED <<pc, file>>

\* book[k].remove_phone(p)
RemovePhone ==
  /\ pc = "lib"
  /\ \E k \in Keys(data), p \in PhoneInputs :
       LET r == remove_phone(RecOf(k), p)
       IN  /\ data' = SetItem(data, k, r.rec)
           /\ last' = Plain("remove_phone", <<k, p>>, r.exc)
  /\ UNCHANGED <<pc, file>>

\* book[k].edit_phone(o, p)
EditPhone ==
  /\ pc = "lib"
  /\ \E k \in Keys(data), o \in ValidPhones, p \in PhoneInputs :
       LET r == edit_phone(RecOf(k), o, p)
       IN  /\ data' = SetItem(data, k, r.rec)
           /\ last' = Plain("edit_phone", <<k, o, p>>, r.exc)
  /\ UNCHANGED <<pc, file>>

\* book[k].find_phone(p)
FindPhone ==
  /\ pc = "lib"
  /\ \E k \in Keys(data), p \in PhoneInputs :
       LET r == find_phone(RecOf(k), p)
       IN  last' = Call("find_phone", <<k, p>>, "None", r.found, NoDate, <<>>, "",
                        <<r.value>>)
  /\ UNCHANGED <<data, pc, file>>

\* book[k].add_birthday(b), b one of inputs
AddBirthdayFrom(inputs) ==
  /\ pc = "lib"
  /\ \E k \in Keys(data), b \in inputs :
       LET r == add_birthday(RecOf(k), b)
       IN  /\ data' = SetItem(data, k, r.rec)
           /\ last' = Plain("add_birthday", <<k, b>>, r.exc)
  /\ UNCHANGED <<pc, file>>

AddBirthday == AddBirthdayFrom(BirthdayInputs)

\* book.get_upcoming_birthdays() while datetime.today() is today
GetUpcomingBirthdays ==
  /\ pc = "lib"
  /\ \E today \in Todays :
       LET r == get_upcoming_birthdays(data, today)
       IN  last' = Call("get_upcoming_birthdays", <<>>, r.exc, FALSE, today, r.ret,
                        "", <<>>)
  /\ UNCHANGED <<data, pc, file>>

\* The handler main calls for the command cmd, applied to args
Dispatch(cmd, args, d, today) ==
  CASE cmd = W_hello         -> Returned(d, "How can I help you?", <<>>)
    [] cmd = W_add           -> add_contact(args, d)
    [] cmd = W_change        -> change_contact(args, d)
    [] cmd = W_phone         -> show_phone(args, d)
    [] cmd = W_all           -> show_all(args, d)
    [] cmd = W_add_birthday  -> add_birthday_cmd(args, d)
    [] cmd = W_show_birthday -> show_birthday(args, d)
    [] cmd = W_birthdays     -> birthdays(args, d, today)
    [] OTHER                 -> Returned(d, "Invalid command.", <<>>)

OpName(cmd) ==
  CASE cmd = W_add           -> "add_contact"
    [] cmd = W_change        -> "change_contact"
    [] cmd = W_phone         -> "show_phone"
    [] cmd = W_all           -> "show_all"
    [] cmd = W_add_birthday  -> "add_birthday_cmd"
    [] cmd = W_show_birthday -> "show_birthday"
    [] cmd = W_birthdays     -> "birthdays"
    [] OTHER                 -> "main"

\* The clock is read by the birthdays command only.
TodaysFor(cmd) == IF cmd = W_birthdays THEN TodaysMain ELSE {NoDate}

\* An add that would grow a record beyond MaxPhones phones is not offered.
WithinBounds(cmd, args, d) ==
  ~(/\ cmd = W_add
    /\ Len(args) >= 2
    /\ find(d, args[1]).found
    /\ Len(find(d, args[1]).rec.phones) >= MaxPhones)

\* A handler called with the book, as the command layer calls it
Handle(cmd, args) ==
  /\ WithinBounds(cmd, args, data)
  /\ \E today \in TodaysFor(cmd) :
       LET h == Dispatch(cmd, args, data, today)
       IN  /\ data' = h.data
           /\ last' = Call(OpName(cmd), args, h.exc, FALSE, today, <<>>, h.msg, h.lines)

CmdAddContact ==
  /\ pc = "lib"
  /\ \E a \in AddArgs \cup { << <<>>, P1 >>, << <<"a">>, <<>> >> } : Handle(W_add, a)
  /\ UNCHANGED <<pc, file>>

CmdChangeContact ==
  /\ pc = "lib"
  /\ \E a \in ChangeArgs : Handle(W_change, a)
  /\ UNCHANGED <<pc, file>>

CmdAddBirthday ==
  /\ pc = "lib"
  /\ \E a \in AddBirthdayArgs : Handle(W_add_birthday, a)
  /\ UNCHANGED <<pc, file>>

\* The calls that change the book or a record of it, and the two lookups
Next ==
  \/ AddRecord
  \/ Find
  \/ Delete
  \/ AddPhone
  \/ RemovePhone
  \/ EditPhone
  \/ FindPhone
  \/ AddBirthday
  \/ CmdAddContact
  \/ CmdChangeContact
  \/ CmdAddBirthday

Spec == Init /\ [][Next]_vars

----------------------------------------------------------------------------
(* The upcoming-birthdays query on books of records with birthdays *)

SetBirthday == AddBirthdayFrom(QueryBirthdays)

NextBirthdays ==
  \/ AddRecord
  \/ SetBirthday
  \/ GetUpcomingBirthdays

SpecBirthdays == Init /\ [][NextBirthdays]_vars

----------------------------------------------------------------------------
(* The process: main() *)

\* load_data() finds no file: book = AddressBook(); the welcome is printed
InitMain ==
  /\ data = <<>>
  /\ last = Call("main", <<>>, "None", FALSE, NoDate, <<>>,
                 "Welcome to the assistant bot!", <<>>)
  /\ pc = "prompt"
  /\ file = <<>>

\* One pass of the while loop: input(), parse_input, the dispatch.
\* parse_input is called outside any try: what it raises ends the process.
MainLoop ==
  /\ pc = "prompt"
  /\ \E user_input \in Lines :
       LET p == parse_input(user_input)
       IN  IF p.exc # "None"
           THEN /\ pc' = "crashed"
                /\ last' = Plain("parse_input", <<user_input>>, p.exc)
                /\ UNCHANGED <<data, file>>
           ELSE IF p.cmd \in {W_close, W_exit}
           THEN /\ file' = <<data>>
                /\ pc' = "exited"
                /\ last' = Call("main", <<p.cmd>> \o p.args, "None", FALSE, NoDate, <<>>,
                                "Address book saved. Good bye!", <<>>)
                /\ UNCHANGED data
           ELSE /\ Handle(p.cmd, p.args)
                /\ UNCHANGED <<pc, file>>

NextMain == MainLoop

SpecMain == InitMain /\ [][NextMain]_vars

----------------------------------------------------------------------------
(* Phone construction on its own *)

PhoneChars == {"5", "0", "a", "U+00B2"}

MaxTail == 2       \* characters appended after the repeated one

TailsOf(n) == UNION { [1..k -> PhoneChars] : k \in 0..n }

\* Strings of 8 to 11 equal characters followed by at most MaxTail others.
PhoneStrings ==
  { Rep(c, n) \o t : c \in PhoneChars, n \in (PhoneLen - 2)..(PhoneLen + 1),
                     t \in TailsOf(MaxTail) }

InitPhone ==
  /\ data = <<>>
  /\ last = Plain("", <<>>, "None")
  /\ pc = "lib"
  /\ file = <<>>

\* p = Phone(value); str(p)
NewPhone ==
  /\ pc = "lib"
  /\ \E value \in PhoneStrings :
       LET p == Phone(value)
       IN  last' = Call("Phone", <<value>>, p.exc, FALSE, NoDate, <<>>, "",
                        IF p.exc = "None" THEN <<PhoneStr(p.value)>> ELSE <<>>)
  /\ UNCHANGED <<data, pc, file>>

NextPhone == NewPhone

SpecPhone == InitPhone /\ [][NextPhone]_vars

----------------------------------------------------------------------------
(* Error kinds: the classes the code raises for them *)

\* What Name, Phone and Birthday raise for a malformed value
ValidationError == "ValueError"

\* What AddressBook.delete raises for a missing name
NotFoundError == "KeyError"

----------------------------------------------------------------------------
(* The upcoming-birthdays query *)

IsQuery == last.op = "get_upcoming_birthdays"

\* The birthday's next occurrence on or after the date of today
NextOccurrence(birthday, today) ==
  IF toordinal(ReplaceYear(birthday, today.y)) >= toordinal(today)
  THEN ReplaceYear(birthday, today.y)
  ELSE ReplaceYear(birthday, today.y + 1)

\* Saturday -> +2 days, Sunday -> +1 day, Monday to Friday unchanged
WeekendShifted(date) ==
  IF weekday(date) = 5 THEN AddDays(date, 2)
  ELSE IF weekday(date) = 6 THEN AddDays(date, 1)
  ELSE date

Congratulation(birthday, today) == WeekendShifted(NextOccurrence(birthday, today))

ReturnedNames == {last.ret[j].name : j \in 1..Len(last.ret)}

\* C1: every pair get_upcoming_birthdays returns carries the contact's next
\* birthday occurrence, moved to Monday only when it falls on a Saturday or a
\* Sunday and unchanged on Monday to Friday, formatted DD.MM.YYYY.
C1_ReturnedDateIsWeekendShiftedOccurrence ==
  (IsQuery /\ last.exc = "None") =>
    \A j \in 1..Len(last.ret) :
      last.ret[j].date =
        strftime(Congratulation(find(data, last.ret[j].name).rec.birthday, last.today))

\* C2: at any date and time of day, a record with a birthday is returned if and
\* only if its weekend-shifted next occurrence is at most 5 calendar days after
\* the date of today.
C2_ReturnedIffWithinFiveDays ==
  (IsQuery /\ last.exc = "None") =>
    \A i \in 1..Len(data) :
      data[i].rec.birthday # NoDate =>
        ( data[i].rec.name \in ReturnedNames
          <=> toordinal(Congratulation(data[i].rec.birthday, last.today))
                - toordinal(last.today) <= Window )

\* C3: today is date-only: on a weekday, a record whose birthday has today's
\* day and month is returned, with a date of this year, at any time of day.
C3_SameDayBirthdayIncluded ==
  (IsQuery /\ last.exc = "None" /\ weekday(last.today) < 5) =>
    \A i \in 1..Len(data) :
      ( /\ data[i].rec.birthday # NoDate
        /\ data[i].rec.birthday.m = last.today.m
        /\ data[i].rec.birthday.d = last.today.d )
      => \E j \in 1..Len(last.ret) :
           /\ last.ret[j].name = data[i].rec.name
           /\ SubSeq(last.ret[j].date, 7, 10) = Pad(last.today.y, 4)

\* C10: get_upcoming_birthdays returns a list and raises nothing, whatever
\* birthdays the validator accepted (29.02 of a leap year too) and whatever
\* today is.
C10_QueryNeverRaises == IsQuery => last.exc = "None"

----------------------------------------------------------------------------
(* The book and its records *)

\* The call made by this step failed in the validation of a field
FailedValidation ==
  /\ last'.exc = ValidationError
  /\ \/ last'.op \in {"add_phone", "add_birthday"}
     \/ last'.op = "edit_phone" /\ Phone(last'.args[3]).exc # "None"
     \/ /\ last'.op = "add_contact"
        /\ Len(last'.args) >= 2
        /\ Phone(last'.args[2]).exc # "None"

\* C4: a call that fails field validation (add_phone, edit_phone with an
\* invalid new number, add_birthday, the add command with an invalid phone)
\* leaves the names of the store and every record's phones and birthday as
\* they were.
C4_FailedValidationChangesNothing == [][FailedValidation => data' = data]_vars

\* The step is edit_phone(old, new) on a record that holds no phone equal to old
EditOfMissingPhone ==
  /\ last'.op = "edit_phone"
  /\ FirstIndex(find(data, last'.args[1]).rec.phones, last'.args[2]) = 0

\* C6: edit_phone with an old number the record does not hold fails with
\* NotFoundError, a kind other than ValidationError, and leaves the phone
\* list unchanged, whether the new number is valid or not.
C6_EditMissingPhoneIsNotFound ==
  [][EditOfMissingPhone =>
       /\ last'.exc = NotFoundError
       /\ last'.exc # ValidationError
       /\ data' = data]_vars

\* delete(name) of this step did what C7 says
DeleteIsExact ==
  last'.op = "delete" =>
    IF last'.args[1] \notin Keys(data)
    THEN last'.exc = NotFoundError /\ data' = data
    ELSE /\ last'.exc = "None"
         /\ ~find(data', last'.args[1]).found
         /\ Keys(data') = Keys(data) \ {last'.args[1]}
         /\ \A k \in Keys(data') : find(data', k).rec = find(data, k).rec

\* A name comes into the store only by adding a record of that name
AbsentUntilAdded ==
  \A n \in NameInputs :
    (~find(data, n).found /\ find(data', n).found) =>
      last'.op \in {"add_record", "add_contact"} /\ last'.args[1] = n

\* find(name) of this step returned a record exactly for a name in the store
FindReportsStore ==
  last'.op = "find" => last'.found = (last'.args[1] \in Keys(data))

\* C7: delete(name) of an absent name fails with NotFoundError and changes
\* nothing; delete(name) of a present name removes that record only, and
\* find(name) returns none from then on until a record of that name is added.
C7_DeleteRemovesExactlyTheName ==
  [][DeleteIsExact /\ AbsentUntilAdded /\ FindReportsStore]_vars

\* A record was deleted and another one is still in the store
C7_Witness ==
  /\ last.op = "delete"
  /\ last.exc = "None"
  /\ Len(data) = 1
  /\ ~find(data, last.args[1]).found

\* C8: every key of the store is the name of the record under it, and that
\* name is not empty.
C8_KeyIsRecordName ==
  \A i \in 1..Len(data) :
    /\ data[i].key = data[i].rec.name
    /\ data[i].rec.name # <<>>
    /\ \A j \in 1..Len(data) : data[j].key = data[i].key => j = i

\* Two records, the first of them put again by add_record over the old one
C8_Witness ==
  /\ last.op = "add_record"
  /\ Len(data) = 2
  /\ data[1].key = last.args[1]
  /\ data[2].rec.phones # <<>>

----------------------------------------------------------------------------
(* The command loop *)

\* C5: no line ends the process with an error: the loop is at its prompt
\* until close or exit ends it.
C5_NoLineCrashes ==
  /\ pc \in {"prompt", "exited"}
  /\ pc = "exited" => last.args[1] \in {W_close, W_exit}

----------------------------------------------------------------------------
(* Phone *)

TenAsciiDigits(value) ==
  Len(value) = 10 /\ \A i \in 1..Len(value) : value[i] \in AsciiDigits

\* C9: Phone(value) succeeds exactly for ten characters each in 0-9, its
\* string form is then value, and every other string fails with
\* ValidationError.
C9_PhoneAcceptsExactlyTenAsciiDigits ==
  last.op = "Phone" =>
    /\ last.exc = "None" <=> TenAsciiDigits(last.args[1])
    /\ last.exc = "None" => last.lines = <<last.args[1]>>
    /\ last.exc # "None" => last.exc = ValidationError

====
